---- MODULE Spec2Model ----
(***************************************************************************)
(* Payment state machine, wallet ledger and premium-access claim protocol  *)
(* of backend/app/star_payments.py, with the request handlers              *)
(* (backend/app/routers) and the ARQ worker (backend/app/worker.py) that   *)
(* drive it.  Every database statement that commits on its own is one      *)
(* atomic step; a read followed by a later write of the same ORM object    *)
(* is two steps, so that other transactions can commit in between.         *)
(***************************************************************************)
EXTENDS Integers, Sequences, FiniteSets, TLC

\* ---------------------------------------------------------------- bounds
MaxRequests == 3      \* concurrent premium request handlers / claim callers
MaxDeliveries == 2    \* concurrent deliveries of the provider's success callback
MaxPrice == 30        \* largest configured price tried in the wallet race
MaxTopups == 2        \* top-ups credited before the wallet race starts
MaxInvoices == 1      \* create_invoice_for_user calls
MaxReplays == 3       \* deliveries of one callback in the replay scenario
MaxCalls == 2         \* premium requests in the whole-system specification

Requests == 1..MaxRequests
Deliveries == 1..(IF MaxReplays >= MaxDeliveries THEN MaxReplays ELSE MaxDeliveries)
Invoicers == 1..MaxInvoices

\* ------------------------------------------------------- program constants
PAYMENT_STATUS_CREATED == "created"
PAYMENT_STATUS_INVOICED == "invoiced"
PAYMENT_STATUS_PAID == "paid"
PAYMENT_STATUS_CONSUMED == "consumed"
PAYMENT_STATUS_FAILED == "failed"
PAYMENT_STATUS_CANCELLED == "cancelled"

WALLET_LEDGER_KIND_TOPUP == "topup_credit"
WALLET_LEDGER_KIND_PREMIUM_DEBIT == "premium_debit"
WALLET_LEDGER_KIND_PREMIUM_REFUND == "premium_refund"

STARS_CURRENCY == "XTR"
TopupAmount29 == 29
DefaultPrice == 29

\* NULL column value / None argument
None == 0

NumUsers == 2         \* users; user 1 owns the payments of the race scenarios
Users == 1..NumUsers

VARIABLES
    payments,        \* star_payments table: sequence of rows, id = index
    wallet_ledger,   \* wallet_ledger table: sequence of rows, id = index
    wallet_balance,  \* users.wallet_balance, per user
    stars_price,     \* settings.stars_price_*_premium, per premium feature
    req,             \* request handlers / claim callers, per request
    dlv,             \* deliveries of the telegram-success callback
    inv,             \* create_invoice_for_user callers
    snd,             \* the send_payment_invoice_to_chat caller
    jobs,            \* ARQ jobs: sequence, job id = index
    hist,            \* history: what has happened so far (not program state)
    bot              \* notify_backend_about_successful_payment: the bot's retry loop

vars == <<payments, wallet_ledger, wallet_balance, stars_price, req, dlv, inv, snd, jobs, hist, bot>>

\* ------------------------------------------------------------ the catalog
PremiumFeatures == {"tarot_premium", "numerology_premium", "natal_premium"}
TopupFeatures == {"wallet_topup_29"}

\* is_wallet_topup_feature: str(feature).startswith("wallet_topup_")
is_wallet_topup_feature(feature) == feature \in TopupFeatures

\* _product_catalog: feature -> amount_stars; None when the feature is unknown
\* (get_product then raises 400)
product_amount(feature) ==
    IF feature \in PremiumFeatures THEN
        (IF stars_price[feature] >= 1 THEN stars_price[feature] ELSE 1)
    ELSE IF feature = "wallet_topup_29" THEN TopupAmount29
    ELSE None

\* an HTTPException
Err(code, detail) == [status_code |-> code, detail |-> detail]
NoErr == [status_code |-> 0, detail |-> "none"]

\* mutant: one error whatever the status
_payment_error_for_status_Always402(status) == Err(402, "stars_required")

\* _payment_error_for_status
_payment_error_for_status(status) ==
    IF status \in {PAYMENT_STATUS_CREATED, PAYMENT_STATUS_INVOICED}
        THEN Err(409, "not_confirmed")
    ELSE IF status = PAYMENT_STATUS_CONSUMED
        THEN Err(409, "already_used")
    ELSE IF status \in {PAYMENT_STATUS_FAILED, PAYMENT_STATUS_CANCELLED}
        THEN Err(402, "not_completed")
    ELSE Err(402, "stars_required")

\* get_user_payment: the row with this id owned by this user, or None (404)
get_user_payment(user, payment_id) ==
    IF payment_id \in DOMAIN payments /\ payments[payment_id].user_id = user
        THEN payment_id ELSE None

\* utcnow(): the instant of a call, one distinct value per calling process
utcnow(tag) == tag
ReqClock(r) == <<"request", r>>
DlvClock(w) == <<"delivery", w>>
NoTime == <<>>

\* ------------------------------------------------------------------ rows
\* a star_payments row (models.StarPayment), as create_invoice_for_user inserts it
NewPayment(user, feature) ==
    [user_id |-> user,
     feature |-> feature,
     amount_stars |-> product_amount(feature),
     currency |-> STARS_CURRENCY,
     status |-> PAYMENT_STATUS_CREATED,
     invoice_link |-> FALSE,
     telegram_payment_charge_id |-> None,
     provider_payment_charge_id |-> None,
     consumed_by_task_id |-> None,
     paid_at |-> NoTime,
     consumed_at |-> NoTime]

\* a wallet_ledger row (models.WalletLedger)
LedgerRow(user, delta, kind, feature, star_payment_id, related_ledger_id) ==
    [user_id |-> user,
     delta_stars |-> delta,
     kind |-> kind,
     feature |-> feature,
     star_payment_id |-> star_payment_id,
     related_ledger_id |-> related_ledger_id,
     task_id |-> None]

\* a request handler that has not been called yet
IdleRequest ==
    [pc |-> "idle", user |-> 1, handler |-> "none", payment_id |-> None,
     use_wallet |-> FALSE, claim_source |-> "none", claim_id |-> None,
     job_id |-> None, error |-> NoErr]

Raise(r, e) == [req EXCEPT ![r].pc = "raised", ![r].error = e]
\* ------------------------------------------------- claim of a paid payment
\* the feature each premium handler claims (routers/tarot.py, numerology.py, compat.py)
HandlerFeature(handler) ==
    CASE handler = "tarot" -> "tarot_premium"
      [] handler = "numerology" -> "numerology_premium"
      [] OTHER -> "compat_premium"

Handlers == {"tarot", "numerology", "compat"}

\* claim_premium_access takes the payment path when payment_id is given; the
\* numerology handler calls claim_paid_payment_for_feature whatever payment_id is
TakesPaymentPath(q) == q.handler = "numerology" \/ q.payment_id # None

\* the pre-check of claim_paid_payment_for_feature: the error it raises, or NoErr
ClaimPrecheck(user, feature, payment_id) ==
    IF payment_id = None THEN Err(402, "need_payment")
    ELSE IF get_user_payment(user, payment_id) = None THEN Err(404, "not_found")
    ELSE IF payments[payment_id].feature # feature THEN Err(409, "other_feature")
    ELSE IF payments[payment_id].status # PAYMENT_STATUS_PAID
        THEN _payment_error_for_status(payments[payment_id].status)
    ELSE NoErr

\* claim_paid_payment_for_feature, lines 469-476: load the payment and check it
ClaimRead(r) ==
    /\ req[r].pc = "claim"
    /\ TakesPaymentPath(req[r])
    /\ LET e == ClaimPrecheck(req[r].user, HandlerFeature(req[r].handler), req[r].payment_id)
       IN req' = IF e = NoErr THEN [req EXCEPT ![r].pc = "claim_update"] ELSE Raise(r, e)
    /\ UNCHANGED <<payments, wallet_ledger, wallet_balance, stars_price, dlv, inv, snd, jobs, hist, bot>>

\* mutant: the UPDATE's WHERE clause without the status condition
ClaimMatches_NoStatusGuard(user, payment_id) ==
    /\ payment_id \in DOMAIN payments
    /\ payments[payment_id].user_id = user

\* the WHERE clause of the compare-and-swap: id, owner and status = paid
ClaimMatches(user, payment_id) ==
    /\ payment_id \in DOMAIN payments
    /\ payments[payment_id].user_id = user
    /\ payments[payment_id].status = PAYMENT_STATUS_PAID

\* claim_paid_payment_for_feature, lines 478-500: the conditional UPDATE and
\* its commit; one row updated returns the payment, none goes on to re-read
ClaimUpdate(r) ==
    /\ req[r].pc = "claim_update"
    /\ LET pid == req[r].payment_id IN
       IF ClaimMatches(req[r].user, pid)
       THEN /\ payments' = [payments EXCEPT ![pid].status = PAYMENT_STATUS_CONSUMED,
                                            ![pid].consumed_at = utcnow(ReqClock(r))]
            /\ req' = [req EXCEPT ![r].pc = "claimed",
                                  ![r].claim_source = "payment",
                                  ![r].claim_id = pid]
       ELSE /\ payments' = payments
            /\ req' = [req EXCEPT ![r].pc = "claim_reread"]
    /\ UNCHANGED <<wallet_ledger, wallet_balance, stars_price, dlv, inv, snd, jobs, hist, bot>>

\* lines 496-498: zero rows updated, re-read the status and raise its error
ClaimReread(r) ==
    /\ req[r].pc = "claim_reread"
    /\ req' = Raise(r, _payment_error_for_status(payments[req[r].payment_id].status))
    /\ UNCHANGED <<payments, wallet_ledger, wallet_balance, stars_price, dlv, inv, snd, jobs, hist, bot>>

\* ------------------------------------------------------ claim of the wallet
\* mutant: the decrement guarded by a positive balance instead of balance >= cost
WalletCovers_AnyPositive(user, cost) == wallet_balance[user] > 0

\* mutant: the decrement with no condition on the balance
WalletCovers_Always(user, cost) == TRUE

\* the WHERE clause of the wallet compare-and-swap: balance >= cost
WalletCovers(user, cost) == wallet_balance[user] >= cost

\* claim_wallet_balance_for_feature: one transaction, the conditional decrement
\* and the premium_debit row (400 from get_product when the feature is unknown)
ClaimWallet(r) ==
    /\ req[r].pc = "claim"
    /\ ~TakesPaymentPath(req[r])
    /\ req[r].use_wallet
    /\ LET feature == HandlerFeature(req[r].handler)
           cost == product_amount(feature)
           user == req[r].user
       IN IF cost = None
          THEN /\ req' = Raise(r, Err(400, "unknown_product"))
               /\ UNCHANGED <<wallet_balance, wallet_ledger>>
          ELSE IF WalletCovers(user, cost)
          THEN /\ wallet_balance' = [wallet_balance EXCEPT ![user] = @ - cost]
               /\ wallet_ledger' = Append(wallet_ledger,
                      LedgerRow(user, -cost, WALLET_LEDGER_KIND_PREMIUM_DEBIT, feature, None, None))
               /\ req' = [req EXCEPT ![r].pc = "claimed",
                                     ![r].claim_source = "wallet",
                                     ![r].claim_id = Len(wallet_ledger) + 1]
          ELSE /\ req' = Raise(r, Err(402, "insufficient_balance"))
               /\ UNCHANGED <<wallet_balance, wallet_ledger>>
    /\ UNCHANGED <<payments, stars_price, dlv, inv, snd, jobs, hist, bot>>

\* claim_premium_access, line 572: neither a payment nor the wallet was offered
ClaimNothing(r) ==
    /\ req[r].pc = "claim"
    /\ ~TakesPaymentPath(req[r])
    /\ ~req[r].use_wallet
    /\ req' = Raise(r, Err(402, "need_payment_or_wallet"))
    /\ UNCHANGED <<payments, wallet_ledger, wallet_balance, stars_price, dlv, inv, snd, jobs, hist, bot>>
\* -------------------------------------------------------------- restoring
\* mutant: the WHERE clause without the status condition
RestoreMatches_AnyStatus(user, payment_id) ==
    /\ payment_id \in DOMAIN payments
    /\ payments[payment_id].user_id = user

\* the WHERE clause of restore_consumed_payment_to_paid: id, owner, status = consumed
RestoreMatches(user, payment_id) ==
    /\ payment_id \in DOMAIN payments
    /\ payments[payment_id].user_id = user
    /\ payments[payment_id].status = PAYMENT_STATUS_CONSUMED

\* mutant: a restore that updates nothing
restore_consumed_payment_to_paid_Noop(user, payment_id) == payments

\* mutant: a restore that leaves the job id on the payment
restore_consumed_payment_to_paid_KeepsTask(user, payment_id) ==
    IF RestoreMatches(user, payment_id)
    THEN [payments EXCEPT ![payment_id].status = PAYMENT_STATUS_PAID,
                          ![payment_id].consumed_at = NoTime]
    ELSE payments

\* restore_consumed_payment_to_paid: the table after its conditional UPDATE
restore_consumed_payment_to_paid(user, payment_id) ==
    IF RestoreMatches(user, payment_id)
    THEN [payments EXCEPT ![payment_id].status = PAYMENT_STATUS_PAID,
                          ![payment_id].consumed_at = NoTime,
                          ![payment_id].consumed_by_task_id = None]
    ELSE payments

\* restore_wallet_spend, lines 344-354: the premium_debit row of this user, or None
FindDebit(user, wallet_ledger_id) ==
    IF /\ wallet_ledger_id \in DOMAIN wallet_ledger
       /\ wallet_ledger[wallet_ledger_id].user_id = user
       /\ wallet_ledger[wallet_ledger_id].kind = WALLET_LEDGER_KIND_PREMIUM_DEBIT
    THEN wallet_ledger_id ELSE None

\* the premium_refund rows that point at a debit
RefundsOf(debit_id) ==
    {i \in DOMAIN wallet_ledger :
        /\ wallet_ledger[i].related_ledger_id = debit_id
        /\ wallet_ledger[i].kind = WALLET_LEDGER_KIND_PREMIUM_REFUND}

Abs(n) == IF n < 0 THEN -n ELSE n

\* restore_wallet_spend, lines 344-369: the three early returns.  The debit
\* row, once found, never changes owner, kind or delta, so its SELECT and the
\* SELECT of an existing refund are taken as one read.
RefundDue(user, wallet_ledger_id) ==
    /\ FindDebit(user, wallet_ledger_id) # None
    /\ RefundsOf(wallet_ledger_id) = {}
    /\ Abs(wallet_ledger[wallet_ledger_id].delta_stars) > 0

\* mutant: the refund row written with no stars while the balance is raised
RefundRow_ZeroDelta(user, debit_id) ==
    LedgerRow(user, 0, WALLET_LEDGER_KIND_PREMIUM_REFUND,
              wallet_ledger[debit_id].feature, None, debit_id)

\* restore_wallet_spend, lines 371-394: the refund row it appends
RefundRow(user, debit_id) ==
    LedgerRow(user, Abs(wallet_ledger[debit_id].delta_stars), WALLET_LEDGER_KIND_PREMIUM_REFUND,
              wallet_ledger[debit_id].feature, None, debit_id)

\* ------------------------------------------- the handler after its claim
\* arq_pool.enqueue_job returned a job: the job is queued.  `backing_*` is
\* history, the claim the enqueuing request held; the job itself carries none.
NewJob(q) ==
    [function |-> q.handler, user |-> q.user, state |-> "queued", failure |-> "none",
     found_source |-> "none", found_id |-> None, was_attached |-> FALSE,
     backing_source |-> q.claim_source, backing_id |-> q.claim_id]

EnqueueJob(r) ==
    /\ req[r].pc = "claimed"
    /\ jobs' = Append(jobs, NewJob(req[r]))
    /\ req' = [req EXCEPT ![r].pc = "enqueued", ![r].job_id = Len(jobs) + 1]
    /\ UNCHANGED <<payments, wallet_ledger, wallet_balance, stars_price, dlv, inv, snd, hist, bot>>

\* arq_pool.enqueue_job raised: the handler's except branch is entered
EnqueueFails(r) ==
    /\ req[r].pc = "claimed"
    /\ req' = [req EXCEPT ![r].pc = "enqueue_failed"]
    /\ UNCHANGED <<payments, wallet_ledger, wallet_balance, stars_price, dlv, inv, snd, jobs, hist, bot>>

\* restore_premium_access_claim for a payment claim (in the numerology handler
\* restore_consumed_payment_to_paid itself), then the handler re-raises
RestorePaymentClaim(r) ==
    /\ req[r].pc = "enqueue_failed"
    /\ req[r].claim_source = "payment"
    /\ payments' = restore_consumed_payment_to_paid(req[r].user, req[r].claim_id)
    /\ req' = Raise(r, Err(500, "enqueue_failed"))
    /\ UNCHANGED <<wallet_ledger, wallet_balance, stars_price, dlv, inv, snd, jobs, hist, bot>>

\* restore_premium_access_claim for a wallet claim: the reads of restore_wallet_spend
RestoreWalletCheck(r) ==
    /\ req[r].pc = "enqueue_failed"
    /\ req[r].claim_source = "wallet"
    /\ req' = IF RefundDue(req[r].user, req[r].claim_id)
              THEN [req EXCEPT ![r].pc = "refund"]
              ELSE Raise(r, Err(500, "enqueue_failed"))
    /\ UNCHANGED <<payments, wallet_ledger, wallet_balance, stars_price, dlv, inv, snd, jobs, hist, bot>>

\* restore_wallet_spend, lines 371-394: the balance increment and the refund
\* row, one transaction; then the handler re-raises
RestoreWalletRefund(r) ==
    /\ req[r].pc = "refund"
    /\ wallet_balance' = [wallet_balance EXCEPT
                             ![req[r].user] = @ + Abs(wallet_ledger[req[r].claim_id].delta_stars)]
    /\ wallet_ledger' = Append(wallet_ledger, RefundRow(req[r].user, req[r].claim_id))
    /\ req' = Raise(r, Err(500, "enqueue_failed"))
    /\ UNCHANGED <<payments, stars_price, dlv, inv, snd, jobs, hist, bot>>

\* get_full_natal_premium (routers/natal.py, lines 234-289): the handler checks
\* its configuration, loads the chart and calls enqueue_job.  It takes neither
\* payment_id nor use_wallet and calls no claim function, so the job it queues
\* is backed by nothing and nothing is attached.
NatalEnqueue(r) ==
    /\ req[r].pc = "idle"
    /\ LET q == [req[r] EXCEPT !.handler = "natal"]
       IN /\ jobs' = Append(jobs, NewJob(q))
          /\ req' = [req EXCEPT ![r] = [q EXCEPT !.pc = "returned", !.job_id = Len(jobs) + 1]]
    /\ UNCHANGED <<payments, wallet_ledger, wallet_balance, stars_price, dlv, inv, snd, hist, bot>>

\* attach_consumed_payment_task: the table after its conditional UPDATE
attach_consumed_payment_task(user, payment_id, task_id) ==
    IF task_id # None /\ RestoreMatches(user, payment_id)
    THEN [payments EXCEPT ![payment_id].consumed_by_task_id = task_id]
    ELSE payments

\* attach_wallet_spend_task: the table after its UPDATE of the debit row
attach_wallet_spend_task(user, wallet_ledger_id, task_id) ==
    IF task_id # None /\ FindDebit(user, wallet_ledger_id) # None
    THEN [wallet_ledger EXCEPT ![wallet_ledger_id].task_id = task_id]
    ELSE wallet_ledger

\* attach_premium_claim_task after a successful enqueue, then the handler
\* returns {"status": "pending", "task_id": ...}
AttachTask(r) ==
    /\ req[r].pc = "enqueued"
    /\ IF req[r].claim_source = "payment"
       THEN /\ payments' = attach_consumed_payment_task(req[r].user, req[r].claim_id, req[r].job_id)
            /\ wallet_ledger' = wallet_ledger
       ELSE /\ wallet_ledger' = attach_wallet_spend_task(req[r].user, req[r].claim_id, req[r].job_id)
            /\ payments' = payments
    /\ req' = [req EXCEPT ![r].pc = "returned"]
    /\ UNCHANGED <<wallet_balance, stars_price, dlv, inv, snd, jobs, hist, bot>>

\* ------------------------------------------------------------- the worker
\* how a premium job can fail: generation returned nothing usable, generation
\* raised, or the job runner's job_timeout (WorkerSettings) cancelled the task
FailureKinds == {"empty", "exception", "timeout"}

\* whether the task function reaches its _restore_premium_claim call.  An empty
\* report does in every premium task; an exception does where the generation
\* call is wrapped in try/except Exception (numerology, compat) and not in
\* task_generate_tarot_premium; the cancellation of a timeout is no Exception
\* and passes through every task.
ReachesRestore(function, failure) ==
    \/ failure = "empty"
    \/ failure = "exception" /\ function \in {"numerology", "compat"}

\* the payment or premium_debit row that carries this job id
PaymentOfTask(job_id) ==
    {pid \in DOMAIN payments : payments[pid].consumed_by_task_id = job_id}
DebitOfTask(job_id) ==
    {i \in DOMAIN wallet_ledger :
        /\ wallet_ledger[i].task_id = job_id
        /\ wallet_ledger[i].kind = WALLET_LEDGER_KIND_PREMIUM_DEBIT}

\* the job ran and stored {"status": "done", "result": ...}
JobSucceeds(j) ==
    /\ j \in DOMAIN jobs
    /\ jobs[j].state = "queued"
    /\ jobs' = [jobs EXCEPT ![j].state = "done"]
    /\ UNCHANGED <<payments, wallet_ledger, wallet_balance, stars_price, req, dlv, inv, snd, hist, bot>>

\* the job failed.  Where the task reaches _restore_premium_claim it has stored
\* {"status": "failed"} first; otherwise the task is over with nothing restored.
\* `was_attached` is history: whether a row carried the job id at that moment.
JobFails(j, failure) ==
    /\ j \in DOMAIN jobs
    /\ jobs[j].state = "queued"
    /\ jobs' = [jobs EXCEPT
          ![j].failure = failure,
          ![j].was_attached = (PaymentOfTask(j) # {} \/ DebitOfTask(j) # {}),
          ![j].state = IF ReachesRestore(jobs[j].function, failure)
                       THEN "failed_stored" ELSE "aborted"]
    /\ UNCHANGED <<payments, wallet_ledger, wallet_balance, stars_price, req, dlv, inv, snd, hist, bot>>

\* restore_premium_claim_by_task_id, its lookup: the payment carrying the job
\* id, else the premium_debit row carrying it, else nothing to restore
WorkerLookup(j) ==
    /\ j \in DOMAIN jobs
    /\ jobs[j].state = "failed_stored"
    /\ jobs' = IF PaymentOfTask(j) # {}
               THEN [jobs EXCEPT ![j].state = "restore_payment",
                                 ![j].found_source = "payment",
                                 ![j].found_id = CHOOSE pid \in PaymentOfTask(j) : TRUE]
               ELSE IF DebitOfTask(j) # {}
               THEN [jobs EXCEPT ![j].state = "restore_wallet",
                                 ![j].found_source = "wallet",
                                 ![j].found_id = CHOOSE i \in DebitOfTask(j) : TRUE]
               ELSE [jobs EXCEPT ![j].state = "finished"]
    /\ UNCHANGED <<payments, wallet_ledger, wallet_balance, stars_price, req, dlv, inv, snd, hist, bot>>

\* the matching restorer for a payment: restore_consumed_payment_to_paid
WorkerRestorePayment(j) ==
    /\ j \in DOMAIN jobs
    /\ jobs[j].state = "restore_payment"
    /\ payments' = restore_consumed_payment_to_paid(payments[jobs[j].found_id].user_id, jobs[j].found_id)
    /\ jobs' = [jobs EXCEPT ![j].state = "finished"]
    /\ UNCHANGED <<wallet_ledger, wallet_balance, stars_price, req, dlv, inv, snd, hist, bot>>

\* the matching restorer for a debit: restore_wallet_spend, its reads
WorkerRestoreWalletCheck(j) ==
    /\ j \in DOMAIN jobs
    /\ jobs[j].state = "restore_wallet"
    /\ jobs' = [jobs EXCEPT ![j].state =
                  IF RefundDue(wallet_ledger[jobs[j].found_id].user_id, jobs[j].found_id)
                  THEN "refund" ELSE "finished"]
    /\ UNCHANGED <<payments, wallet_ledger, wallet_balance, stars_price, req, dlv, inv, snd, hist, bot>>

\* restore_wallet_spend, its transaction, run by the worker
WorkerRefund(j) ==
    /\ j \in DOMAIN jobs
    /\ jobs[j].state = "refund"
    /\ LET debit == jobs[j].found_id
           user == wallet_ledger[debit].user_id
       IN /\ wallet_balance' = [wallet_balance EXCEPT
                                   ![user] = @ + Abs(wallet_ledger[debit].delta_stars)]
          /\ wallet_ledger' = Append(wallet_ledger, RefundRow(user, debit))
    /\ jobs' = [jobs EXCEPT ![j].state = "finished"]
    /\ UNCHANGED <<payments, stars_price, req, dlv, inv, snd, hist, bot>>

\* ------------------------------------------- the provider's success callback
RaiseDelivery(w, e) == [dlv EXCEPT ![w].pc = "raised", ![w].error = e]

\* the row whose invoice_payload this is (the payload is unique per payment and
\* is modelled by the payment's id), or None
payment_by_payload(invoice_payload) ==
    IF invoice_payload \in DOMAIN payments THEN invoice_payload ELSE None

\* str(currency).upper(), over the currency codes a callback is tried with
Upper(currency) == IF currency = "xtr" THEN "XTR" ELSE currency

\* mutant: the checks without the one on an already recorded charge id
MarkPaidPrecheck_NoChargeCheck(d) ==
    LET pid == payment_by_payload(d.invoice_payload) IN
    IF pid = None THEN Err(404, "payload_not_found")
    ELSE IF d.tg_user_id # None /\ payments[pid].user_id # d.tg_user_id
        THEN Err(409, "user_mismatch")
    ELSE IF Upper(d.currency) # Upper(payments[pid].currency) THEN Err(409, "currency_mismatch")
    ELSE IF d.total_amount # payments[pid].amount_stars THEN Err(409, "amount_mismatch")
    ELSE NoErr

\* mark_payment_paid_from_telegram, lines 433-445: the checks on the loaded row
MarkPaidPrecheck(d) ==
    LET pid == payment_by_payload(d.invoice_payload) IN
    IF pid = None THEN Err(404, "payload_not_found")
    ELSE IF d.tg_user_id # None /\ payments[pid].user_id # d.tg_user_id
        THEN Err(409, "user_mismatch")
    ELSE IF Upper(d.currency) # Upper(payments[pid].currency) THEN Err(409, "currency_mismatch")
    ELSE IF d.total_amount # payments[pid].amount_stars THEN Err(409, "amount_mismatch")
    ELSE IF /\ d.telegram_payment_charge_id # None
            /\ payments[pid].telegram_payment_charge_id \notin {None, d.telegram_payment_charge_id}
        THEN Err(409, "other_charge_id")
    ELSE NoErr

\* lines 433-445: SELECT the payment into the session and check the callback
\* against it; the ORM object keeps the column values read here
MarkPaidLoad(w) ==
    /\ dlv[w].pc = "deliver"
    /\ LET e == MarkPaidPrecheck(dlv[w])
           pid == dlv[w].invoice_payload
       IN dlv' = IF e # NoErr THEN RaiseDelivery(w, e)
                 ELSE [dlv EXCEPT ![w].pc = "commit",
                                  ![w].seen_status = payments[pid].status,
                                  ![w].seen_paid_at = payments[pid].paid_at,
                                  ![w].seen_tg_charge = payments[pid].telegram_payment_charge_id,
                                  ![w].seen_provider_charge = payments[pid].provider_payment_charge_id]
    /\ UNCHANGED <<payments, wallet_ledger, wallet_balance, stars_price, req, inv, snd, jobs, hist, bot>>

\* mutant: the status test left out, every delivery marks the payment paid
MarksPaid_Always(seen_status) == TRUE

\* line 448: the status test, made on the loaded object
MarksPaid(seen_status) == seen_status \notin {PAYMENT_STATUS_PAID, PAYMENT_STATUS_CONSUMED}

\* the unique constraint on star_payments.telegram_payment_charge_id
ChargeIdTaken(pid, charge_id) ==
    \E other \in DOMAIN payments :
        other # pid /\ payments[other].telegram_payment_charge_id = charge_id

\* lines 447-457: the attributes assigned on the loaded object and flushed by
\* the commit.  The UPDATE is by primary key and writes only the attributes
\* whose value differs from the loaded one, whatever the row holds by now.
MarkPaidWrite(w, row) ==
    LET d == dlv[w]
        s1 == IF MarksPaid(d.seen_status)
              THEN [row EXCEPT !.status = PAYMENT_STATUS_PAID,
                               !.paid_at = IF d.seen_paid_at # NoTime THEN row.paid_at
                                           ELSE utcnow(DlvClock(w))]
              ELSE row
        s2 == IF d.telegram_payment_charge_id # None /\ d.seen_tg_charge = None
              THEN [s1 EXCEPT !.telegram_payment_charge_id = d.telegram_payment_charge_id]
              ELSE s1
        s3 == IF /\ d.provider_payment_charge_id # None
                 /\ d.provider_payment_charge_id # d.seen_provider_charge
              THEN [s2 EXCEPT !.provider_payment_charge_id = d.provider_payment_charge_id]
              ELSE s2
    IN s3

\* mutant: the credit attempted only by the delivery that marked the payment paid
CreditsWallet_OnlyWhenMarked(seen_status, feature) ==
    is_wallet_topup_feature(feature) /\ MarksPaid(seen_status)

\* line 458 and lines 253-254: _credit_wallet_for_paid_topup_if_needed is
\* called after every commit, whatever status the delivery had loaded, and
\* goes on for a top-up feature
CreditsWallet(seen_status, feature) == is_wallet_topup_feature(feature)

\* lines 455-457: the commit.  A charge id that another payment already holds
\* makes the flush raise IntegrityError, which nothing catches (500).  For a
\* feature that is no top-up _credit_wallet_for_paid_topup_if_needed returns
\* at once, so the call is over.
MarkPaidCommit(w) ==
    /\ dlv[w].pc = "commit"
    /\ LET pid == dlv[w].invoice_payload
           new == MarkPaidWrite(w, payments[pid])
       IN IF /\ new.telegram_payment_charge_id # payments[pid].telegram_payment_charge_id
             /\ ChargeIdTaken(pid, new.telegram_payment_charge_id)
          THEN /\ dlv' = RaiseDelivery(w, Err(500, "integrity_error"))
               /\ payments' = payments
          ELSE /\ payments' = [payments EXCEPT ![pid] = new]
               /\ dlv' = [dlv EXCEPT ![w].pc =
                            IF CreditsWallet(dlv[w].seen_status, payments[pid].feature)
                            THEN "credit_check" ELSE "done"]
    /\ UNCHANGED <<wallet_ledger, wallet_balance, stars_price, req, inv, snd, jobs, hist, bot>>

\* the ledger rows that reference this payment
TopupCredits(pid) ==
    {i \in DOMAIN wallet_ledger : wallet_ledger[i].star_payment_id = pid}

\* _credit_wallet_for_paid_topup_if_needed, lines 256-262: the lookup of an
\* existing ledger row for the payment
CreditCheck(w) ==
    /\ dlv[w].pc = "credit_check"
    /\ dlv' = [dlv EXCEPT ![w].pc =
                  IF TopupCredits(dlv[w].invoice_payload) # {} THEN "done" ELSE "credit"]
    /\ UNCHANGED <<payments, wallet_ledger, wallet_balance, stars_price, req, inv, snd, jobs, hist, bot>>

\* mutant: wallet_ledger without the unique constraint on star_payment_id
TopupInsertRejected_NoConstraint(pid) == FALSE

\* the unique constraint on wallet_ledger.star_payment_id (migration 0007,
\* line 38): the INSERT of a second row for the payment is rejected
TopupInsertRejected(pid) == TopupCredits(pid) # {}

\* lines 264-293: one transaction, the balance increment and the topup_credit
\* row; when the INSERT is rejected the rollback undoes the increment too
CreditApply(w) ==
    /\ dlv[w].pc = "credit"
    /\ LET pid == dlv[w].invoice_payload
           user == payments[pid].user_id
           amount == payments[pid].amount_stars
       IN IF TopupInsertRejected(pid)
          THEN UNCHANGED <<wallet_balance, wallet_ledger>>
          ELSE /\ wallet_balance' = [wallet_balance EXCEPT ![user] = @ + amount]
               /\ wallet_ledger' = Append(wallet_ledger,
                      LedgerRow(user, amount, WALLET_LEDGER_KIND_TOPUP,
                                payments[pid].feature, pid, None))
    /\ dlv' = [dlv EXCEPT ![w].pc = "done"]
    /\ UNCHANGED <<payments, stars_price, req, inv, snd, jobs, hist, bot>>

\* ------------------------------------------------------ invoice creation
InvClock(c) == <<"invoice", c>>

\* create_invoice_for_user, lines 182-199: the row is inserted in `created`
\* and committed before the provider is called
CreateInvoice(c, user, feature) ==
    /\ inv[c].pc = "idle"
    /\ product_amount(feature) # None
    /\ payments' = Append(payments, NewPayment(user, feature))
    /\ inv' = [inv EXCEPT ![c].pc = "created", ![c].payment_id = Len(payments) + 1]
    /\ UNCHANGED <<wallet_ledger, wallet_balance, stars_price, req, dlv, snd, jobs, hist, bot>>

\* lines 211-217: createInvoiceLink returned a link; link and status are set on
\* the object loaded at insert time and flushed by primary key
InvoiceLinked(c) ==
    /\ inv[c].pc = "created"
    /\ payments' = [payments EXCEPT ![inv[c].payment_id].status = PAYMENT_STATUS_INVOICED,
                                    ![inv[c].payment_id].invoice_link = TRUE]
    /\ inv' = [inv EXCEPT ![c].pc = "done"]
    /\ UNCHANGED <<wallet_ledger, wallet_balance, stars_price, req, dlv, snd, jobs, hist, bot>>

\* lines 203-209: the provider call raised; the payment is marked failed and
\* the HTTPException goes to the caller
InvoiceFailed(c) ==
    /\ inv[c].pc = "created"
    /\ payments' = [payments EXCEPT ![inv[c].payment_id].status = PAYMENT_STATUS_FAILED]
    /\ inv' = [inv EXCEPT ![c].pc = "raised", ![c].error = Err(502, "invoice_link_failed")]
    /\ UNCHANGED <<wallet_ledger, wallet_balance, stars_price, req, dlv, snd, jobs, hist, bot>>

\* _create_telegram_invoice_link, line 129: the provider answered 200 with a
\* JSON body that is no object (null, a list, a string), so payload.get raises
\* AttributeError after the try block has ended.  It is no HTTPException: the
\* except clause of create_invoice_for_user (line 203) lets it pass, nothing
\* is written and the generic handler answers 500.
InvoiceUnhandled(c) ==
    /\ inv[c].pc = "created"
    /\ inv' = [inv EXCEPT ![c].pc = "raised", ![c].error = Err(500, "internal_error")]
    /\ UNCHANGED <<payments, wallet_ledger, wallet_balance, stars_price, req, dlv, snd, jobs, hist, bot>>

\* send_payment_invoice_to_chat, lines 612-618: load the payment, refuse or
\* return early by its status
SendLoad(user, payment_id) ==
    /\ snd.pc = "idle"
    /\ LET pid == get_user_payment(user, payment_id)
           status == payments[pid].status
       IN snd' = IF pid = None
                    THEN [snd EXCEPT !.pc = "raised", !.error = Err(404, "not_found")]
                 ELSE IF status = PAYMENT_STATUS_CONSUMED
                    THEN [snd EXCEPT !.pc = "raised", !.payment_id = pid,
                                     !.error = Err(409, "already_used")]
                 ELSE IF status = PAYMENT_STATUS_PAID
                    THEN [snd EXCEPT !.pc = "done", !.payment_id = pid]
                 ELSE IF status \in {PAYMENT_STATUS_FAILED, PAYMENT_STATUS_CANCELLED}
                    THEN [snd EXCEPT !.pc = "raised", !.payment_id = pid,
                                     !.error = Err(409, "not_resendable")]
                 ELSE [snd EXCEPT !.pc = "sending", !.payment_id = pid, !.seen_status = status]
    /\ UNCHANGED <<payments, wallet_ledger, wallet_balance, stars_price, req, dlv, inv, jobs, hist, bot>>

\* lines 627-633: sendInvoice succeeded; a payment loaded as `created` is
\* written as `invoiced`, otherwise only updated_at is written
SendDone ==
    /\ snd.pc = "sending"
    /\ payments' = IF snd.seen_status = PAYMENT_STATUS_CREATED
                   THEN [payments EXCEPT ![snd.payment_id].status = PAYMENT_STATUS_INVOICED]
                   ELSE payments
    /\ snd' = [snd EXCEPT !.pc = "done"]
    /\ UNCHANGED <<wallet_ledger, wallet_balance, stars_price, req, dlv, inv, jobs, hist, bot>>

\* lines 620-625 (_send_telegram_invoice_to_chat, lines 149-162): sendInvoice
\* failed, 502 to the caller, nothing written
SendFails ==
    /\ snd.pc = "sending"
    /\ snd' = [snd EXCEPT !.pc = "raised", !.error = Err(502, "send_invoice_failed")]
    /\ UNCHANGED <<payments, wallet_ledger, wallet_balance, stars_price, req, dlv, inv, jobs, hist, bot>>

\* ------------------------------------------------------- initial conditions
NoHistory == [balance0 |-> 0, target |-> None]
DefaultPrices == [f \in PremiumFeatures |-> DefaultPrice]

\* a payment that create_invoice_for_user invoiced and one delivery marked paid
PaidPayment(user, feature, amount, charge_id) ==
    [NewPayment(user, feature) EXCEPT
        !.amount_stars = amount,
        !.status = PAYMENT_STATUS_PAID,
        !.invoice_link = TRUE,
        !.telegram_payment_charge_id = charge_id,
        !.provider_payment_charge_id = charge_id,
        !.paid_at = utcnow(DlvClock(1))]

\* request r calls `handler` with these query parameters
Calling(handler, payment_id, use_wallet) ==
    [IdleRequest EXCEPT !.pc = "claim", !.handler = handler,
                        !.payment_id = payment_id, !.use_wallet = use_wallet]

IdleDelivery ==
    [pc |-> "idle", invoice_payload |-> None, tg_user_id |-> None,
     currency |-> STARS_CURRENCY, total_amount |-> 0,
     telegram_payment_charge_id |-> None, provider_payment_charge_id |-> None,
     seen_status |-> "none", seen_paid_at |-> NoTime, seen_tg_charge |-> None,
     seen_provider_charge |-> None, error |-> NoErr]

IdleInvoicer == [pc |-> "idle", payment_id |-> None, error |-> NoErr]
IdleSender == [pc |-> "idle", payment_id |-> None, seen_status |-> "none", error |-> NoErr]

\* the bot before a successful_payment message has arrived (bot.py)
IdleBot ==
    [pc |-> "idle", attempt |-> 0, failures |-> 0, slept |-> <<>>, result |-> "none",
     message |-> IdleDelivery]

\* ---------------------------------------------------------------------------
\* SpecClaimRace: N >= 1 callers claim the same paid payment concurrently.
\* ---------------------------------------------------------------------------
InitClaimRace ==
    \E n \in 1..MaxRequests, handler \in {"tarot", "numerology"} :
        /\ stars_price = DefaultPrices
        /\ payments = <<PaidPayment(1, HandlerFeature(handler), DefaultPrice, 1)>>
        /\ wallet_ledger = <<>>
        /\ wallet_balance = [u \in Users |-> 0]
        /\ req = [r \in Requests |-> IF r <= n THEN Calling(handler, 1, FALSE) ELSE IdleRequest]
        /\ dlv = [w \in Deliveries |-> IdleDelivery]
        /\ inv = [c \in Invoicers |-> IdleInvoicer]
        /\ snd = IdleSender
        /\ bot = IdleBot
        /\ jobs = <<>>
        /\ hist = NoHistory

NextClaimRace ==
    \E r \in Requests : ClaimRead(r) \/ ClaimUpdate(r) \/ ClaimReread(r)

SpecClaimRace == InitClaimRace /\ [][NextClaimRace]_vars

Callers == {r \in Requests : req[r].pc # "idle"}
Finished == {r \in Requests : req[r].pc \in {"claimed", "raised"}}
Succeeded == {r \in Requests : req[r].pc = "claimed"}
Failed == {r \in Requests : req[r].pc = "raised"}

\* C1: of N concurrent claims of one paid payment at most one succeeds, every
\* failed one got 409 Conflict, and once all N have returned exactly one has
\* succeeded and the payment is consumed.
C1_ExactlyOneClaimWins ==
    /\ Cardinality(Succeeded) <= 1
    /\ \A r \in Failed : req[r].error.status_code = 409
    /\ (Callers = Finished) =>
          /\ Cardinality(Succeeded) = 1
          /\ Cardinality(Failed) = Cardinality(Callers) - 1
          /\ payments[1].status = PAYMENT_STATUS_CONSUMED

\* all of three callers have returned: one won, one lost at the pre-check
\* and one lost at the conditional update (zero rows, re-read)
C1_Witness ==
    /\ Cardinality(Callers) >= 3
    /\ Callers = Finished
    /\ Cardinality(Succeeded) = 1
    /\ \E r \in Failed : req[r].error = Err(409, "already_used")
\* ---------------------------------------------------------------------------
\* SpecWalletRace: N concurrent wallet debits of cost C against balance B,
\* B being what k credited top-ups of 29 left in the wallet.
\* ---------------------------------------------------------------------------
TopupRow(user, payment_id) ==
    LedgerRow(user, TopupAmount29, WALLET_LEDGER_KIND_TOPUP, "wallet_topup_29", payment_id, None)

InitWalletRace ==
    \E n \in 1..MaxRequests, cost \in 1..MaxPrice, k \in 0..MaxTopups :
        /\ stars_price = [f \in PremiumFeatures |-> cost]
        /\ payments = [i \in 1..k |-> PaidPayment(1, "wallet_topup_29", TopupAmount29, i)]
        /\ wallet_ledger = [i \in 1..k |-> TopupRow(1, i)]
        /\ wallet_balance = [u \in Users |-> IF u = 1 THEN k * TopupAmount29 ELSE 0]
        /\ req = [r \in Requests |-> IF r <= n THEN Calling("tarot", None, TRUE) ELSE IdleRequest]
        /\ dlv = [w \in Deliveries |-> IdleDelivery]
        /\ inv = [c \in Invoicers |-> IdleInvoicer]
        /\ snd = IdleSender
        /\ bot = IdleBot
        /\ jobs = <<>>
        /\ hist = [balance0 |-> k * TopupAmount29, target |-> None]

NextWalletRace == \E r \in Requests : ClaimWallet(r)

SpecWalletRace == InitWalletRace /\ [][NextWalletRace]_vars

Min(a, b) == IF a <= b THEN a ELSE b

\* C2: with N concurrent debits of cost C against balance B the balance is
\* never negative, always equals B - C * successes, and once all N have
\* returned exactly min(N, floor(B / C)) of them have succeeded.
C2_WalletDebitsBounded ==
    LET cost == product_amount("tarot_premium") IN
    /\ wallet_balance[1] >= 0
    /\ wallet_balance[1] = hist.balance0 - cost * Cardinality(Succeeded)
    /\ (Callers = Finished) =>
          Cardinality(Succeeded) = Min(Cardinality(Callers), hist.balance0 \div cost)

\* three callers have returned, the balance covered some of them but not all
C2_Witness ==
    /\ Cardinality(Callers) >= 3
    /\ Callers = Finished
    /\ Cardinality(Succeeded) = 2
    /\ \E r \in Failed : req[r].error = Err(402, "insufficient_balance")
\* ---------------------------------------------------------------------------
\* SpecTopupReplay: one success callback of a wallet top-up of 29 is delivered
\* n >= 1 times with identical arguments, the deliveries interleaving freely.
\* ---------------------------------------------------------------------------
InvoicedPayment(user, feature, amount) ==
    [NewPayment(user, feature) EXCEPT
        !.amount_stars = amount,
        !.status = PAYMENT_STATUS_INVOICED,
        !.invoice_link = TRUE]

\* the callback the bot posts for payment pid (bot.py, lines 185-192)
Callback(pid, tg_user_id, amount, charge_id) ==
    [IdleDelivery EXCEPT !.pc = "deliver", !.invoice_payload = pid,
                         !.tg_user_id = tg_user_id, !.total_amount = amount,
                         !.telegram_payment_charge_id = charge_id,
                         !.provider_payment_charge_id = charge_id]

InitTopupReplay ==
    \E n \in 1..MaxReplays, k \in 0..MaxTopups, tg_user_id \in {None, 1} :
        /\ stars_price = DefaultPrices
        /\ payments = [i \in 1..(k + 1) |->
                          IF i <= k THEN PaidPayment(1, "wallet_topup_29", TopupAmount29, i)
                          ELSE InvoicedPayment(1, "wallet_topup_29", TopupAmount29)]
        /\ wallet_ledger = [i \in 1..k |-> TopupRow(1, i)]
        /\ wallet_balance = [u \in Users |-> IF u = 1 THEN k * TopupAmount29 ELSE 0]
        /\ req = [r \in Requests |-> IdleRequest]
        /\ dlv = [w \in Deliveries |->
                     IF w <= n THEN Callback(k + 1, tg_user_id, TopupAmount29, k + 1)
                     ELSE IdleDelivery]
        /\ inv = [c \in Invoicers |-> IdleInvoicer]
        /\ snd = IdleSender
        /\ bot = IdleBot
        /\ jobs = <<>>
        /\ hist = [balance0 |-> k * TopupAmount29, target |-> k + 1]

NextTopupReplay ==
    \E w \in Deliveries : MarkPaidLoad(w) \/ MarkPaidCommit(w) \/ CreditCheck(w) \/ CreditApply(w)

SpecTopupReplay == InitTopupReplay /\ [][NextTopupReplay]_vars

Delivered == {w \in Deliveries : dlv[w].pc = "done"}
TopupCreditRows(pid) ==
    {i \in TopupCredits(pid) : wallet_ledger[i].kind = WALLET_LEDGER_KIND_TOPUP}

\* C3: however many times the callback of a top-up of A is delivered, and
\* however the deliveries interleave, at most one topup_credit row references
\* the payment, the balance has grown by A per such row, no delivery fails,
\* and once a delivery has returned there is exactly one row: the balance has
\* grown by exactly A.
C3_TopupCreditedOnce ==
    LET pid == hist.target
        rows == TopupCreditRows(pid)
    IN /\ Cardinality(rows) <= 1
       /\ wallet_balance[1] = hist.balance0 + payments[pid].amount_stars * Cardinality(rows)
       /\ \A w \in Deliveries : dlv[w].pc # "raised"
       /\ (Delivered # {}) =>
             /\ Cardinality(rows) = 1
             /\ wallet_balance[1] = hist.balance0 + TopupAmount29

\* three deliveries of the callback have returned; the payment is paid and one
\* topup_credit row references it
C3_Witness ==
    /\ Cardinality(Delivered) >= 3
    /\ payments[hist.target].status = PAYMENT_STATUS_PAID
    /\ Cardinality(TopupCreditRows(hist.target)) = 1
\* ---------------------------------------------------------------------------
\* SpecRefundRace: after one top-up and one wallet claim of cost C, n callers
\* run restore_wallet_spend on the claim's premium_debit row concurrently.
\* ---------------------------------------------------------------------------
DebitRow(user, cost, feature) ==
    LedgerRow(user, -cost, WALLET_LEDGER_KIND_PREMIUM_DEBIT, feature, None, None)

\* a caller about to run restore_premium_access_claim on the claim it holds
\* (a handler whose claim succeeded and whose enqueue_job raised)
Restoring(source, claim_id) ==
    [Calling("tarot", IF source = "payment" THEN claim_id ELSE None, source = "wallet")
        EXCEPT !.pc = "enqueue_failed", !.claim_source = source, !.claim_id = claim_id]

InitRefundRace ==
    \E n \in 1..MaxRequests, cost \in 1..Min(MaxPrice, TopupAmount29) :
        /\ stars_price = [f \in PremiumFeatures |-> cost]
        /\ payments = <<PaidPayment(1, "wallet_topup_29", TopupAmount29, 1)>>
        /\ wallet_ledger = <<TopupRow(1, 1), DebitRow(1, cost, "tarot_premium")>>
        /\ wallet_balance = [u \in Users |-> IF u = 1 THEN TopupAmount29 - cost ELSE 0]
        /\ req = [r \in Requests |-> IF r <= n THEN Restoring("wallet", 2) ELSE IdleRequest]
        /\ dlv = [w \in Deliveries |-> IdleDelivery]
        /\ inv = [c \in Invoicers |-> IdleInvoicer]
        /\ snd = IdleSender
        /\ bot = IdleBot
        /\ jobs = <<>>
        /\ hist = [balance0 |-> TopupAmount29 - cost, target |-> 2]

NextRefundRace == \E r \in Requests : RestoreWalletCheck(r) \/ RestoreWalletRefund(r)

SpecRefundRace == InitRefundRace /\ [][NextRefundRace]_vars

\* C4: whatever number of restore_wallet_spend calls ran on a premium_debit
\* row, and however they interleaved, at most one premium_refund row points
\* at it and the balance has been credited back at most once, by the debit's
\* magnitude.
C4_AtMostOneRefund ==
    LET debit == hist.target IN
    /\ Cardinality(RefundsOf(debit)) <= 1
    /\ wallet_balance[1] <= hist.balance0 + Abs(wallet_ledger[debit].delta_stars)
\* ---------------------------------------------------------------------------
\* Spec: the whole system.  Invoices are created, the provider's callback is
\* delivered (and replayed), premium handlers claim, enqueue, attach or
\* restore, and jobs succeed or fail in the worker, all interleaving freely.
\* ---------------------------------------------------------------------------
Init ==
    /\ stars_price = DefaultPrices
    /\ payments = <<>>
    /\ wallet_ledger = <<>>
    /\ wallet_balance = [u \in Users |-> 0]
    /\ req = [r \in Requests |-> IdleRequest]
    /\ dlv = [w \in Deliveries |-> IdleDelivery]
    /\ inv = [c \in Invoicers |-> IdleInvoicer]
    /\ snd = IdleSender
    /\ bot = IdleBot
    /\ jobs = <<>>
    /\ hist = NoHistory

\* the features an invoice is asked for (schemas.PremiumFeatureCode and the top-up)
InvoicedFeatures == {"tarot_premium", "numerology_premium", "wallet_topup_29"}

\* the payments a client holds the id of: create_stars_invoice answers with the
\* payment id only once create_invoice_for_user has returned
KnownPayments == {inv[c].payment_id : c \in {x \in Invoicers : inv[x].pc = "done"}}

\* the provider confirms only an invoice that reached the user, and it reports
\* the invoice's own payload, payer, currency and amount, and one charge id
\* per payment (bot.py, lines 185-192)
CallbackArrives(w, pid) ==
    /\ dlv[w].pc = "idle"
    /\ pid \in KnownPayments
    /\ dlv' = [dlv EXCEPT ![w] = Callback(pid, payments[pid].user_id, payments[pid].amount_stars, pid)]
    /\ UNCHANGED <<payments, wallet_ledger, wallet_balance, stars_price, req, inv, snd, jobs, hist, bot>>

\* a premium endpoint is called; the handler is about to claim
CallHandler(r, handler, payment_id, use_wallet) ==
    /\ req[r].pc = "idle"
    /\ handler = "numerology" => ~use_wallet
    /\ req' = [req EXCEPT ![r] = Calling(handler, payment_id, use_wallet)]
    /\ UNCHANGED <<payments, wallet_ledger, wallet_balance, stars_price, dlv, inv, snd, jobs, hist, bot>>

RequestStep(r) ==
    \/ \E handler \in Handlers, pid \in KnownPayments \cup {None}, use_wallet \in BOOLEAN :
          CallHandler(r, handler, pid, use_wallet)
    \/ NatalEnqueue(r)
    \/ ClaimRead(r)
    \/ ClaimUpdate(r)
    \/ ClaimReread(r)
    \/ ClaimWallet(r)
    \/ ClaimNothing(r)
    \/ EnqueueJob(r)
    \/ EnqueueFails(r)
    \/ AttachTask(r)
    \/ RestorePaymentClaim(r)
    \/ RestoreWalletCheck(r)
    \/ RestoreWalletRefund(r)

DeliveryStep(w) ==
    \/ \E pid \in KnownPayments : CallbackArrives(w, pid)
    \/ MarkPaidLoad(w)
    \/ MarkPaidCommit(w)
    \/ CreditCheck(w)
    \/ CreditApply(w)

InvoiceStep(c) ==
    \/ \E feature \in InvoicedFeatures : CreateInvoice(c, 1, feature)
    \/ InvoiceLinked(c)
    \/ InvoiceFailed(c)
    \/ InvoiceUnhandled(c)

SendStep ==
    \/ \E pid \in KnownPayments : SendLoad(1, pid)
    \/ SendDone
    \/ SendFails

JobStep(j) ==
    \/ JobSucceeds(j)
    \/ \E failure \in FailureKinds : JobFails(j, failure)
    \/ WorkerLookup(j)
    \/ WorkerRestorePayment(j)
    \/ WorkerRestoreWalletCheck(j)
    \/ WorkerRefund(j)

Next ==
    \/ \E c \in Invoicers : InvoiceStep(c)
    \/ SendStep
    \/ \E w \in 1..MaxDeliveries : DeliveryStep(w)
    \/ \E r \in 1..MaxCalls : RequestStep(r)
    \/ \E j \in 1..MaxCalls : JobStep(j)

Spec == Init /\ [][Next]_vars
\* C5: a delivery of the success callback never moves a payment from consumed
\* back to paid, whatever it read before other transactions committed.
C5_WebhookNeverRegresses ==
    [][\A w \in Deliveries :
          (dlv[w].pc = "commit" /\ dlv'[w].pc # "commit") =>
              ~(/\ payments[dlv[w].invoice_payload].status = PAYMENT_STATUS_CONSUMED
                /\ payments'[dlv[w].invoice_payload].status = PAYMENT_STATUS_PAID)]_vars

\* C6: no double consumption.  A payment never backs two claims at a time whose
\* jobs are pending or completed: a second claim of it succeeds only after the
\* job of the earlier claim failed or was never enqueued.  LiveClaims(pid) are
\* the requests that hold a claim of payment pid which they have not given up:
\* the claim succeeded, enqueue_job did not raise, and the job, if enqueued,
\* has not failed.  CompletedJobs(pid) are the jobs enqueued under a claim of
\* payment pid that ran to successful completion.
C6_NoDoubleConsumption ==
    LET LiveClaims(pid) ==
            {r \in Requests :
                /\ req[r].claim_source = "payment"
                /\ req[r].claim_id = pid
                /\ req[r].pc \in {"claimed", "enqueued", "returned"}
                /\ req[r].job_id # None => jobs[req[r].job_id].state \in {"queued", "done"}}
        CompletedJobs(pid) ==
            {j \in DOMAIN jobs :
                /\ jobs[j].backing_source = "payment"
                /\ jobs[j].backing_id = pid
                /\ jobs[j].state = "done"}
    IN \A pid \in DOMAIN payments :
          /\ Cardinality(LiveClaims(pid)) <= 1
          /\ Cardinality(CompletedJobs(pid)) <= 1

\* C8: once the worker is through with a failed premium job whose id a payment
\* or ledger row carried when it failed, whatever the kind of failure, that
\* payment is back in paid or that debit is refunded.  StillClaimedBy(j): job j
\* still holds what it was attached to, the payment is consumed under its id or
\* the debit carrying its id has no refund.
C8_FailedJobRestored ==
    LET StillClaimedBy(j) ==
            \/ \E pid \in PaymentOfTask(j) : payments[pid].status = PAYMENT_STATUS_CONSUMED
            \/ \E i \in DebitOfTask(j) : RefundsOf(i) = {}
    IN \A j \in DOMAIN jobs :
          (jobs[j].state \in {"finished", "aborted"} /\ jobs[j].was_attached) => ~StillClaimedBy(j)

\* C9: the step by which a handler leaves its except branch after enqueue_job
\* raised leaves a payment-backed claim's payment paid, and for a wallet-backed
\* claim appends the refund of the claim's debit and credits the balance by
\* what the claim took from it.
C9_EnqueueFailureRestores ==
    [][\A r \in Requests :
          (req[r].pc \in {"enqueue_failed", "refund"} /\ req'[r].pc = "raised") =>
              /\ req[r].claim_source = "payment" =>
                    payments'[req[r].claim_id].status = PAYMENT_STATUS_PAID
              /\ req[r].claim_source = "wallet" =>
                    /\ wallet_ledger[req[r].claim_id].delta_stars =
                           -product_amount(HandlerFeature(req[r].handler))
                    /\ wallet_balance'[req[r].user] =
                           wallet_balance[req[r].user] - wallet_ledger[req[r].claim_id].delta_stars
                    /\ Len(wallet_ledger') = Len(wallet_ledger) + 1
                    /\ wallet_ledger'[Len(wallet_ledger')].related_ledger_id = req[r].claim_id
                    /\ wallet_ledger'[Len(wallet_ledger')].delta_stars =
                           -wallet_ledger[req[r].claim_id].delta_stars]_vars

\* a handler has re-raised after enqueue_job failed on a wallet-backed claim
C9_Witness ==
    \E r \in Requests :
        /\ req[r].pc = "raised"
        /\ req[r].error = Err(500, "enqueue_failed")
        /\ req[r].claim_source = "wallet"
        /\ RefundsOf(req[r].claim_id) # {}
        /\ wallet_balance[req[r].user] = TopupAmount29

\* C10: every change of a payment's status is created->invoiced,
\* created->failed, invoiced->paid or paid->consumed, or it is consumed->paid
\* made by a restore step (of a handler in its except branch, or of the worker).
C10_StatusMovesForward ==
    [][LET ForwardChanges ==
               {<<PAYMENT_STATUS_CREATED, PAYMENT_STATUS_INVOICED>>,
                <<PAYMENT_STATUS_CREATED, PAYMENT_STATUS_FAILED>>,
                <<PAYMENT_STATUS_INVOICED, PAYMENT_STATUS_PAID>>,
                <<PAYMENT_STATUS_PAID, PAYMENT_STATUS_CONSUMED>>}
           RestoreStepTaken ==
               \/ \E r \in Requests : req[r].pc = "enqueue_failed" /\ req'[r].pc = "raised"
               \/ \E j \in DOMAIN jobs :
                     jobs[j].state = "restore_payment" /\ jobs'[j].state = "finished"
       IN \A pid \in DOMAIN payments :
             payments'[pid].status # payments[pid].status =>
                 \/ <<payments[pid].status, payments'[pid].status>> \in ForwardChanges
                 \/ /\ payments[pid].status = PAYMENT_STATUS_CONSUMED
                    /\ payments'[pid].status = PAYMENT_STATUS_PAID
                    /\ RestoreStepTaken]_vars
\* ---------------------------------------------------------------------------
\* SpecBothRestore: both restoration paths fire for one claim.  The claim was
\* made and job 1 attached to it; the handler is in its except branch and the
\* worker is through storing the failure of job 1.
\* ---------------------------------------------------------------------------
ConsumedPayment(user, feature, amount, charge_id, task_id) ==
    [PaidPayment(user, feature, amount, charge_id) EXCEPT
        !.status = PAYMENT_STATUS_CONSUMED,
        !.consumed_at = utcnow(ReqClock(1)),
        !.consumed_by_task_id = task_id]

FailedJob(handler, source, claim_id) ==
    [function |-> handler, user |-> 1, state |-> "failed_stored", failure |-> "empty",
     found_source |-> "none", found_id |-> None, was_attached |-> TRUE,
     backing_source |-> source, backing_id |-> claim_id]

InitBothRestore ==
    \E source \in {"payment", "wallet"}, cost \in 1..Min(MaxPrice, TopupAmount29) :
        /\ stars_price = [f \in PremiumFeatures |-> cost]
        /\ payments = IF source = "payment"
                      THEN <<ConsumedPayment(1, "tarot_premium", cost, 1, 1)>>
                      ELSE <<PaidPayment(1, "wallet_topup_29", TopupAmount29, 1)>>
        /\ wallet_ledger = IF source = "payment" THEN <<>>
                           ELSE <<TopupRow(1, 1),
                                  [DebitRow(1, cost, "tarot_premium") EXCEPT !.task_id = 1]>>
        /\ wallet_balance = [u \in Users |->
                                IF u = 1 /\ source = "wallet" THEN TopupAmount29 - cost ELSE 0]
        /\ req = [r \in Requests |->
                     IF r = 1 THEN Restoring(source, IF source = "payment" THEN 1 ELSE 2)
                     ELSE IdleRequest]
        /\ dlv = [w \in Deliveries |-> IdleDelivery]
        /\ inv = [c \in Invoicers |-> IdleInvoicer]
        /\ snd = IdleSender
        /\ bot = IdleBot
        /\ jobs = <<FailedJob("tarot", source, IF source = "payment" THEN 1 ELSE 2)>>
        /\ hist = [balance0 |-> IF source = "wallet" THEN TopupAmount29 - cost ELSE 0,
                   target |-> IF source = "payment" THEN 1 ELSE 2]

NextBothRestore ==
    \/ RestorePaymentClaim(1)
    \/ RestoreWalletCheck(1)
    \/ RestoreWalletRefund(1)
    \/ WorkerLookup(1)
    \/ WorkerRestorePayment(1)
    \/ WorkerRestoreWalletCheck(1)
    \/ WorkerRefund(1)

SpecBothRestore == InitBothRestore /\ [][NextBothRestore]_vars

WrittenStatuses ==
    {PAYMENT_STATUS_CREATED, PAYMENT_STATUS_INVOICED, PAYMENT_STATUS_PAID,
     PAYMENT_STATUS_CONSUMED, PAYMENT_STATUS_FAILED}

PaymentInStatus(user, feature, amount, status, charge_id, task_id) ==
    CASE status = PAYMENT_STATUS_CREATED ->
            [NewPayment(user, feature) EXCEPT !.amount_stars = amount]
      [] status = PAYMENT_STATUS_FAILED ->
            [NewPayment(user, feature) EXCEPT !.amount_stars = amount,
                                              !.status = PAYMENT_STATUS_FAILED]
      [] status = PAYMENT_STATUS_INVOICED -> InvoicedPayment(user, feature, amount)
      [] status = PAYMENT_STATUS_PAID -> PaidPayment(user, feature, amount, charge_id)
      [] OTHER -> ConsumedPayment(user, feature, amount, charge_id, task_id)

\* the calls of a premium handler: no payment id, the caller's payment, another
\* user's payment, an id no payment has; with and without use_wallet
RequestCalls ==
    {Calling(handler, payment_id, use_wallet) :
        handler \in {"tarot", "numerology"},
        payment_id \in {None, 1, 2, Len(payments) + 1},
        use_wallet \in BOOLEAN}
    \ {Calling("numerology", payment_id, TRUE) : payment_id \in {None, 1, 2, Len(payments) + 1}}

\* the calls of a restorer by user 1: on the caller's payment, another user's,
\* an unknown one; on a ledger row that is no debit, the caller's debit,
\* another user's debit, an unknown row
RestoreCalls ==
    {Restoring("payment", payment_id) : payment_id \in {1, 2, Len(payments) + 1}}
    \cup {Restoring("wallet", wallet_ledger_id) :
             wallet_ledger_id \in {1, 3, 4, Len(wallet_ledger) + 1}}

\* the deliveries of a success callback for payment pid: the right arguments,
\* and each argument wrong or absent in turn
DeliveryCalls(pid) ==
    LET right == Callback(pid, payments[pid].user_id, payments[pid].amount_stars, pid) IN
    {right,
     [right EXCEPT !.invoice_payload = Len(payments) + 1],
     [right EXCEPT !.tg_user_id = None],
     [right EXCEPT !.tg_user_id = 2],
     [right EXCEPT !.currency = "xtr"],
     [right EXCEPT !.currency = "USD"],
     [right EXCEPT !.total_amount = @ + 1],
     [right EXCEPT !.telegram_payment_charge_id = None, !.provider_payment_charge_id = None],
     [right EXCEPT !.telegram_payment_charge_id = 2],
     [right EXCEPT !.telegram_payment_charge_id = Len(payments) + 1]}

InitCalls ==
    \E status \in WrittenStatuses, refunded \in BOOLEAN :
        /\ stars_price = DefaultPrices
        /\ payments = <<PaymentInStatus(1, "tarot_premium", DefaultPrice, status, 1, 1),
                        ConsumedPayment(2, "tarot_premium", DefaultPrice, 2, None),
                        PaidPayment(1, "wallet_topup_29", TopupAmount29, 3),
                        PaidPayment(2, "wallet_topup_29", TopupAmount29, 4),
                        InvoicedPayment(1, "wallet_topup_29", TopupAmount29)>>
        /\ wallet_ledger =
              <<TopupRow(1, 3), TopupRow(2, 4),
                DebitRow(1, DefaultPrice, "tarot_premium"),
                DebitRow(2, DefaultPrice, "tarot_premium")>>
              \o (IF refunded
                  THEN <<LedgerRow(1, DefaultPrice, WALLET_LEDGER_KIND_PREMIUM_REFUND,
                                   "tarot_premium", None, 3)>>
                  ELSE <<>>)
        /\ wallet_balance = [u \in Users |->
                                IF u = 1 /\ refunded
                                THEN TopupAmount29
                                ELSE IF u \in {1, 2} THEN TopupAmount29 - DefaultPrice ELSE 0]
        /\ \E first \in RequestCalls \cup RestoreCalls \cup {IdleRequest},
              second \in {IdleRequest, Calling("tarot", 1, FALSE),
                          Restoring("payment", 1), Restoring("wallet", 3)} :
              req = [r \in Requests |-> IF r = 1 THEN first ELSE IF r = 2 THEN second
                                        ELSE IdleRequest]
        /\ \E d \in DeliveryCalls(1) \cup DeliveryCalls(3) \cup DeliveryCalls(5) \cup {IdleDelivery} :
              dlv = [w \in Deliveries |-> IF w = 1 THEN d ELSE IdleDelivery]
        /\ inv = [c \in Invoicers |-> IdleInvoicer]
        /\ snd = IdleSender
        /\ bot = IdleBot
        /\ jobs = <<>>
        /\ hist = [balance0 |-> wallet_balance[1], target |-> 1, status0 |-> status]

NextCalls ==
    \/ \E r \in Requests :
          \/ ClaimRead(r)
          \/ ClaimUpdate(r)
          \/ ClaimReread(r)
          \/ ClaimWallet(r)
          \/ ClaimNothing(r)
          \/ RestorePaymentClaim(r)
          \/ RestoreWalletCheck(r)
          \/ RestoreWalletRefund(r)
    \/ \E w \in Deliveries :
          \/ MarkPaidLoad(w)
          \/ MarkPaidCommit(w)
          \/ CreditCheck(w)
          \/ CreditApply(w)

SpecCalls == InitCalls /\ [][NextCalls]_vars
\* C11: failed and cancelled are terminal.  No step of any operation, a
\* delivery of the success callback carrying the payment's invoice_payload
\* included, changes the status of a payment that is failed or cancelled.
C11_FailedIsTerminal ==
    [][\A pid \in DOMAIN payments :
          payments[pid].status \in {PAYMENT_STATUS_FAILED, PAYMENT_STATUS_CANCELLED} =>
              payments'[pid].status = payments[pid].status]_vars
\* C12: a delivery that replays a successful confirmation, one that loaded the
\* payment as paid or consumed with the charge ids it presents already
\* recorded, changes nothing financial in any of its steps: the payment's row
\* (status, paid_at, charge ids), every balance and the ledger stay as they
\* were.
C12_ReplayIsNoOp ==
    [][\A w \in Deliveries :
          LET d == dlv[w]
              IsReplay ==
                  /\ d.pc \in {"commit", "credit_check", "credit"}
                  /\ d.seen_status \in {PAYMENT_STATUS_PAID, PAYMENT_STATUS_CONSUMED}
                  /\ d.telegram_payment_charge_id = d.seen_tg_charge
                  /\ d.provider_payment_charge_id = d.seen_provider_charge
          IN (IsReplay /\ dlv'[w] # dlv[w]) =>
                /\ dlv'[w].pc # "raised"
                /\ payments' = payments
                /\ wallet_balance' = wallet_balance
                /\ wallet_ledger' = wallet_ledger]_vars

\* replays have returned: one of a confirmation of a payment since consumed
C12_Witness ==
    \E w \in Deliveries :
        /\ dlv[w].pc = "done"
        /\ dlv[w].seen_status = PAYMENT_STATUS_CONSUMED
        /\ dlv[w].telegram_payment_charge_id = dlv[w].seen_tg_charge
        /\ dlv[w].telegram_payment_charge_id # None
        /\ payments[dlv[w].invoice_payload].status = PAYMENT_STATUS_CONSUMED
\* C13: restore_consumed_payment_to_paid is idempotent.  A call on the caller's
\* consumed payment leaves it paid with consumed_at and consumed_by_task_id
\* cleared and every other column and row as it was; a call on a payment
\* already back in paid changes nothing.  Neither call raises: the caller goes
\* on to its own re-raise.
C13_RestoreIdempotent ==
    [][\A r \in Requests :
          LET q == req[r]
              pid == q.claim_id
              Own == pid \in DOMAIN payments /\ payments[pid].user_id = q.user
          IN (q.pc = "enqueue_failed" /\ q.claim_source = "payment" /\ req'[r] # q /\ Own) =>
                /\ req'[r].pc = "raised"
                /\ req'[r].error = Err(500, "enqueue_failed")
                /\ payments[pid].status = PAYMENT_STATUS_CONSUMED =>
                      payments' = [payments EXCEPT ![pid].status = PAYMENT_STATUS_PAID,
                                                   ![pid].consumed_at = NoTime,
                                                   ![pid].consumed_by_task_id = None]
                /\ payments[pid].status = PAYMENT_STATUS_PAID => payments' = payments
                /\ wallet_balance' = wallet_balance
                /\ wallet_ledger' = wallet_ledger]_vars

\* two consecutive restores of payment 1, which was consumed under job id 1,
\* have returned and the payment is paid with the job id cleared
C13_Witness ==
    /\ hist.target = 1
    /\ hist.status0 = PAYMENT_STATUS_CONSUMED
    /\ \A r \in {1, 2} :
          /\ req[r].pc = "raised"
          /\ req[r].claim_source = "payment"
          /\ req[r].claim_id = 1
    /\ payments[1].status = PAYMENT_STATUS_PAID
    /\ payments[1].consumed_by_task_id = None

\* C14: compensation calls outside their expected prior state are no-ops, not
\* errors.  restore_consumed_payment_to_paid on a payment that is not the
\* caller's consumed one (created, invoiced, paid, failed, unknown, another
\* user's), and restore_wallet_spend on an id that is unknown, no premium_debit,
\* already refunded or another user's, return to the caller and leave every
\* payment, balance and ledger row unchanged.
C14_RestoreOutsideStateIsNoOp ==
    [][\A r \in Requests :
          LET q == req[r]
              OutsidePayment ==
                  /\ q.claim_source = "payment"
                  /\ ~(/\ q.claim_id \in DOMAIN payments
                       /\ payments[q.claim_id].user_id = q.user
                       /\ payments[q.claim_id].status = PAYMENT_STATUS_CONSUMED)
              OutsideWallet ==
                  /\ q.claim_source = "wallet"
                  /\ \/ q.claim_id \notin DOMAIN wallet_ledger
                     \/ wallet_ledger[q.claim_id].kind # WALLET_LEDGER_KIND_PREMIUM_DEBIT
                     \/ wallet_ledger[q.claim_id].user_id # q.user
                     \/ \E i \in DOMAIN wallet_ledger :
                           /\ wallet_ledger[i].related_ledger_id = q.claim_id
                           /\ wallet_ledger[i].kind = WALLET_LEDGER_KIND_PREMIUM_REFUND
          IN (q.pc = "enqueue_failed" /\ req'[r] # q /\ (OutsidePayment \/ OutsideWallet)) =>
                /\ req'[r].pc = "raised"
                /\ req'[r].error = Err(500, "enqueue_failed")
                /\ payments' = payments
                /\ wallet_balance' = wallet_balance
                /\ wallet_ledger' = wallet_ledger]_vars

\* restorers have returned from another user's debit and from a failed payment,
\* both still as they were
C14_Witness ==
    /\ hist.target = 1
    /\ hist.status0 = PAYMENT_STATUS_FAILED
    /\ req[1].pc = "raised" /\ req[1].claim_source = "wallet" /\ req[1].claim_id = 4
    /\ req[2].pc = "raised" /\ req[2].claim_source = "payment" /\ req[2].claim_id = 1
    /\ payments[1].status = PAYMENT_STATUS_FAILED
    /\ wallet_ledger[4].user_id = 2
    /\ RefundsOf(4) = {}
C16_DuplicateChargeIsConflict ==
    /\ \A a, b \in DOMAIN payments :
          (a # b /\ payments[a].telegram_payment_charge_id # None) =>
              payments[a].telegram_payment_charge_id # payments[b].telegram_payment_charge_id
    /\ \A w \in Deliveries :
          LET d == dlv[w]
              OnOtherPayment ==
                  /\ d.telegram_payment_charge_id # None
                  /\ \E other \in DOMAIN payments :
                        /\ other # d.invoice_payload
                        /\ payments[other].telegram_payment_charge_id = d.telegram_payment_charge_id
          IN (d.pc = "raised" /\ d.invoice_payload \in DOMAIN payments /\ OnOtherPayment) =>
                d.error.status_code = 409
C18_WalletClaimAllOrNothing ==
    [][\A r \in Requests :
          LET q == req[r]
              cost == product_amount(HandlerFeature(q.handler))
          IN (q.pc = "claim" /\ q.payment_id = None /\ q.use_wallet /\ cost # None /\ req'[r] # q) =>
                IF wallet_balance[q.user] < cost
                THEN /\ req'[r].pc = "raised"
                     /\ req'[r].error.status_code = 402
                     /\ wallet_balance' = wallet_balance
                     /\ wallet_ledger' = wallet_ledger
                ELSE /\ req'[r].pc = "claimed"
                     /\ req'[r].claim_source = "wallet"
                     /\ req'[r].claim_id = Len(wallet_ledger) + 1
                     /\ wallet_balance' = [wallet_balance EXCEPT ![q.user] = @ - cost]
                     /\ Len(wallet_ledger') = Len(wallet_ledger) + 1
                     /\ SubSeq(wallet_ledger', 1, Len(wallet_ledger)) = wallet_ledger
                     /\ wallet_ledger'[Len(wallet_ledger')].kind = WALLET_LEDGER_KIND_PREMIUM_DEBIT
                     /\ wallet_ledger'[Len(wallet_ledger')].delta_stars = -cost
                     /\ wallet_ledger'[Len(wallet_ledger')].user_id = q.user]_vars

\* a wallet claim was refused with 402 while a positive balance below the cost
\* was left, after another claim had been served
C18_Witness ==
    /\ \E r \in Requests :
          req[r].pc = "raised" /\ req[r].error = Err(402, "insufficient_balance")
    /\ \E r \in Requests : req[r].pc = "claimed" /\ req[r].claim_source = "wallet"
    /\ wallet_balance[1] > 0
    /\ wallet_balance[1] < product_amount("tarot_premium")
\* C19: claim_premium_access accepts a call only when exactly one of payment_id
\* and use_wallet is supplied.  A call with neither or with both is rejected
\* and changes no payment, balance or ledger row; an accepted call returns a
\* claim tagged 'payment' with the payment id, or 'wallet' with the id of the
\* new debit row.
C19_ExactlyOneAccessMode ==
    [][\A r \in Requests :
          LET q == req[r]
              Neither == q.payment_id = None /\ ~q.use_wallet
              Both == q.payment_id # None /\ q.use_wallet
          IN /\ (q.pc = "claim" /\ q.handler # "numerology" /\ req'[r] # q) =>
                /\ (Neither \/ Both) =>
                      /\ req'[r].pc = "raised"
                      /\ payments' = payments
                      /\ wallet_balance' = wallet_balance
                      /\ wallet_ledger' = wallet_ledger
                /\ (req'[r].pc = "claimed" /\ q.payment_id = None) =>
                      /\ req'[r].claim_source = "wallet"
                      /\ req'[r].claim_id = Len(wallet_ledger')
                      /\ wallet_ledger'[Len(wallet_ledger')].kind = WALLET_LEDGER_KIND_PREMIUM_DEBIT
             /\ (q.pc = "claim_update" /\ q.handler # "numerology" /\ req'[r].pc = "claimed") =>
                   /\ ~q.use_wallet
                   /\ req'[r].claim_source = "payment"
                   /\ req'[r].claim_id = q.payment_id]_vars
\* C20: ledger reconciliation.  Starting from balance 0 and an empty ledger,
\* in every committed state each user's wallet_balance equals the sum of
\* delta_stars over the user's ledger rows and is not negative; and no step
\* (top-up credit, its rolled-back duplicate, debit, refund) changes a balance
\* without appending, in the same transaction, the one row of that user whose
\* delta_stars is the change.
C20_LedgerReconciles ==
    /\ [](LET RECURSIVE LedgerSum(_, _)
              LedgerSum(u, n) ==
                  IF n = 0 THEN 0
                  ELSE LedgerSum(u, n - 1) +
                       (IF wallet_ledger[n].user_id = u THEN wallet_ledger[n].delta_stars ELSE 0)
          IN \A u \in Users :
                /\ wallet_balance[u] = LedgerSum(u, Len(wallet_ledger))
                /\ wallet_balance[u] >= 0)
    /\ [][\A u \in Users :
             (wallet_balance'[u] # wallet_balance[u]) =>
                /\ Len(wallet_ledger') = Len(wallet_ledger) + 1
                /\ SubSeq(wallet_ledger', 1, Len(wallet_ledger)) = wallet_ledger
                /\ wallet_ledger'[Len(wallet_ledger')].user_id = u
                /\ wallet_ledger'[Len(wallet_ledger')].delta_stars =
                      wallet_balance'[u] - wallet_balance[u]]_vars

\* a user's ledger holds a top-up credit, a debit and its refund, and the
\* top-up's callback was delivered twice, both deliveries finished
C20_Witness ==
    \E u \in Users :
        /\ \E i, j, k \in DOMAIN wallet_ledger :
              /\ wallet_ledger[i].user_id = u /\ wallet_ledger[i].kind = WALLET_LEDGER_KIND_TOPUP
              /\ wallet_ledger[j].user_id = u /\ wallet_ledger[j].kind = WALLET_LEDGER_KIND_PREMIUM_DEBIT
              /\ wallet_ledger[k].kind = WALLET_LEDGER_KIND_PREMIUM_REFUND
              /\ wallet_ledger[k].related_ledger_id = j
              /\ \A w \in 1..MaxDeliveries :
                    dlv[w].pc = "done" /\ dlv[w].invoice_payload = wallet_ledger[i].star_payment_id
        /\ wallet_balance[u] = TopupAmount29
\* C21: the wallet ledger is append-only.  No step, attaching a job id to a
\* wallet claim and refunding it included, changes a field of a committed
\* ledger row or deletes a row.
C21_LedgerAppendOnly ==
    [][/\ Len(wallet_ledger') >= Len(wallet_ledger)
       /\ \A i \in DOMAIN wallet_ledger : wallet_ledger'[i] = wallet_ledger[i]]_vars
\* C22: paid_at is set once.  It is null until the payment first becomes
\* paid, is set by that transition, and no later step (webhook replay, claim,
\* restore, attach) changes it.
C22_PaidAtSetOnce ==
    [][\A pid \in DOMAIN payments :
          /\ (payments[pid].paid_at # NoTime) =>
                payments'[pid].paid_at = payments[pid].paid_at
          /\ (payments[pid].paid_at = NoTime /\ payments'[pid].paid_at # NoTime) =>
                /\ payments[pid].status \notin {PAYMENT_STATUS_PAID, PAYMENT_STATUS_CONSUMED}
                /\ payments'[pid].status = PAYMENT_STATUS_PAID]_vars
\* C23: create_invoice_for_user never leaves a payment stuck in created.
\* When it returns normally the payment is invoiced and has its link; when
\* the provider call fails the payment is failed and the caller gets the
\* upstream-failure error (502).
C23_InvoiceNeverStuck ==
    [][\A c \in Invoicers :
          (inv[c].pc = "created" /\ inv'[c].pc # "created") =>
             LET pid == inv[c].payment_id IN
             \/ /\ inv'[c].pc = "done"
                /\ payments'[pid].status = PAYMENT_STATUS_INVOICED
                /\ payments'[pid].invoice_link
             \/ /\ inv'[c].pc = "raised"
                /\ inv'[c].error.status_code = 502
                /\ payments'[pid].status = PAYMENT_STATUS_FAILED]_vars
\* C24: every premium-report handler (natal, tarot, numerology, compat)
\* follows the caller protocol.  A generation job is enqueued only by a request
\* whose claim succeeded, so every queued premium job is backed by a claim, and
\* a request that returned after a successful enqueue left its job id on the
\* payment or debit row of its claim.
C24_HandlersFollowProtocol ==
    [][/\ (Len(jobs') > Len(jobs)) =>
             \E r \in Requests :
                /\ req[r].pc = "claimed"
                /\ req[r].claim_source \in {"payment", "wallet"}
                /\ req'[r].job_id = Len(jobs')
                /\ jobs'[Len(jobs')].backing_source = req[r].claim_source
                /\ jobs'[Len(jobs')].backing_id = req[r].claim_id
       /\ \A r \in Requests :
             (req[r].pc # "returned" /\ req'[r].pc = "returned") =>
                \/ /\ req[r].claim_source = "payment"
                   /\ payments'[req[r].claim_id].consumed_by_task_id = req'[r].job_id
                \/ /\ req[r].claim_source = "wallet"
                   /\ wallet_ledger'[req[r].claim_id].task_id = req'[r].job_id]_vars
\* C25: the job-side compensation lookup cannot miss.  In every interleaving
\* of the handler (claim, enqueue, attach) with the worker, a failed job whose
\* request held a claim finds, when it looks up its job id, the payment or
\* debit row of that claim; no run ends with the lookup having found nothing
\* because the job failed before the job id was attached.
C25_LookupCannotMiss ==
    \A j \in DOMAIN jobs :
        (/\ jobs[j].backing_source \in {"payment", "wallet"}
         /\ jobs[j].state \in {"restore_payment", "restore_wallet", "refund", "finished"}) =>
            /\ jobs[j].found_source = jobs[j].backing_source
            /\ jobs[j].found_id = jobs[j].backing_id
\* ---------------------------------------------------------------------------
\* SpecLateRestore: the restores of an earlier claim meet a later claim.  The
\* start is that of SpecBothRestore, the claim of job 1 with the handler-side
\* and the worker-side restore both pending; further requests then claim the
\* same payment or the wallet, enqueue their own jobs and attach them.
\* ---------------------------------------------------------------------------
NextLateRestore ==
    \/ NextBothRestore
    \/ \E r \in Requests \ {1} :
          \/ \E use_wallet \in BOOLEAN :
                CallHandler(r, "tarot", IF use_wallet THEN None ELSE 1, use_wallet)
          \/ ClaimRead(r)
          \/ ClaimUpdate(r)
          \/ ClaimReread(r)
          \/ ClaimWallet(r)
          \/ EnqueueJob(r)
          \/ EnqueueFails(r)
          \/ AttachTask(r)
          \/ RestorePaymentClaim(r)
          \/ RestoreWalletCheck(r)
          \/ RestoreWalletRefund(r)

SpecLateRestore == InitBothRestore /\ [][NextLateRestore]_vars

C27_FailedVisibleMeansRestored ==
    \A j \in DOMAIN jobs :
        (jobs[j].state \in {"failed_stored", "restore_payment", "restore_wallet",
                            "refund", "finished"}) =>
            /\ \A pid \in DOMAIN payments :
                  payments[pid].consumed_by_task_id = j =>
                      payments[pid].status # PAYMENT_STATUS_CONSUMED
            /\ \A i \in DOMAIN wallet_ledger :
                  (/\ wallet_ledger[i].task_id = j
                   /\ wallet_ledger[i].kind = WALLET_LEDGER_KIND_PREMIUM_DEBIT) =>
                      RefundsOf(i) # {}
\* C28: for every payment, consumed_at and consumed_by_task_id are non-null
\* only while the status is consumed; in created, invoiced, paid and failed
\* both are null.
C28_ConsumedFieldsOnlyWhileConsumed ==
    \A pid \in DOMAIN payments :
        payments[pid].status # PAYMENT_STATUS_CONSUMED =>
            /\ payments[pid].consumed_at = NoTime
            /\ payments[pid].consumed_by_task_id = None
\* ---------------------------------------------------------------------------
\* SpecPartialWebhook: the deliveries of SpecTopupReplay, any of which may
\* break off after its commit of `paid` and before its credit has committed.
\* ---------------------------------------------------------------------------
\* _credit_wallet_for_paid_topup_if_needed, lines 256-293: a statement of the
\* second transaction raises (connection lost, statement timeout) or the
\* process dies; nothing of the credit is committed and the delivery does not
\* return successfully
CreditFails(w) ==
    /\ dlv[w].pc \in {"credit_check", "credit"}
    /\ dlv' = RaiseDelivery(w, Err(500, "credit_failed"))
    /\ UNCHANGED <<payments, wallet_ledger, wallet_balance, stars_price, req, inv, snd, jobs, hist, bot>>

NextPartialWebhook ==
    \E w \in Deliveries :
        MarkPaidLoad(w) \/ MarkPaidCommit(w) \/ CreditCheck(w) \/ CreditApply(w) \/ CreditFails(w)

SpecPartialWebhook == InitTopupReplay /\ [][NextPartialWebhook]_vars

\* C29: a top-up's wallet credit is not lost by a partial webhook.  Whatever
\* deliveries committed `paid` and then broke off before their credit, or had
\* their duplicate insert rolled back, once some delivery has returned
\* successfully the payment is paid, exactly one topup_credit row references
\* it and the balance has grown by the top-up amount; before that there is at
\* most one such row.
C29_PartialWebhookCreditsOnReplay ==
    LET pid == hist.target
        rows == {i \in DOMAIN wallet_ledger :
                    /\ wallet_ledger[i].star_payment_id = pid
                    /\ wallet_ledger[i].kind = WALLET_LEDGER_KIND_TOPUP}
    IN /\ Cardinality(rows) <= 1
       /\ (\E w \in Deliveries : dlv[w].pc = "done") =>
             /\ payments[pid].status = PAYMENT_STATUS_PAID
             /\ Cardinality(rows) = 1
             /\ wallet_balance[payments[pid].user_id] = hist.balance0 + payments[pid].amount_stars

\* a delivery committed `paid` and broke off before its credit; a replay that
\* loaded the payment as already paid has returned, and the credit is there
C29_Witness ==
    LET pid == hist.target IN
    /\ \E w \in Deliveries :
          /\ dlv[w].error = Err(500, "credit_failed")
          /\ dlv[w].seen_status = PAYMENT_STATUS_INVOICED
    /\ \A w \in Deliveries :
          dlv[w].pc # "raised" => /\ dlv[w].pc = "done"
                                  /\ dlv[w].seen_status = PAYMENT_STATUS_PAID
    /\ \E w \in Deliveries : dlv[w].pc = "done"
    /\ wallet_balance[1] = hist.balance0 + TopupAmount29
    /\ Cardinality(TopupCredits(pid)) = 1
\* ---------------------------------------------------------------------------
\* SpecBot: the bot's delivery of one successful_payment to the backend
\* (bot.py, notify_backend_about_successful_payment), with the backend's
\* handling of every attempt that reached it.
\* ---------------------------------------------------------------------------
max_retries == 4

\* mutant: a linear back-off, 1 s, 2 s, 3 s
wait_seconds_Linear(attempt) == attempt + 1

\* line 218: wait_seconds = 2 ** attempt
wait_seconds(attempt) == 2 ^ attempt

\* lines 215-223 and 225-232: the except branch of one attempt.  Before the
\* last attempt it sleeps wait_seconds and the loop goes on; after the last
\* one the loop ends, the error is logged and the function returns.
BotFailed(b) ==
    IF b.attempt < max_retries - 1
    THEN [b EXCEPT !.pc = "attempt", !.attempt = @ + 1, !.failures = @ + 1,
                   !.slept = Append(@, wait_seconds(b.attempt))]
    ELSE [b EXCEPT !.pc = "returned", !.failures = @ + 1, !.result = "gave_up"]

\* the delivery slot of the attempt under way: attempt k is delivery k + 1
BotSlot == bot.attempt + 1

\* lines 177-183: the handler calls the function; without INTERNAL_API_KEY or
\* INTERNAL_API_BASE_URL it returns at once
BotStart(configured) ==
    /\ bot.pc = "idle"
    /\ bot' = IF configured THEN [bot EXCEPT !.pc = "attempt"]
              ELSE [bot EXCEPT !.pc = "returned", !.result = "skipped"]
    /\ UNCHANGED <<payments, wallet_ledger, wallet_balance, stars_price, req, dlv, inv, snd, jobs, hist>>

\* lines 201-206: the POST reached the backend, which starts handling it
BotPost ==
    /\ bot.pc = "attempt"
    /\ dlv' = [dlv EXCEPT ![BotSlot] = bot.message]
    /\ bot' = [bot EXCEPT !.pc = "awaiting"]
    /\ UNCHANGED <<payments, wallet_ledger, wallet_balance, stars_price, req, inv, snd, jobs, hist>>

\* the POST raised before the backend received anything (connection refused)
BotConnectFails ==
    /\ bot.pc = "attempt"
    /\ bot' = BotFailed(bot)
    /\ UNCHANGED <<payments, wallet_ledger, wallet_balance, stars_price, req, dlv, inv, snd, jobs, hist>>

\* lines 207-214: the backend answered 200; return, no further attempt
BotGotOk ==
    /\ bot.pc = "awaiting"
    /\ dlv[BotSlot].pc = "done"
    /\ bot' = [bot EXCEPT !.pc = "returned", !.result = "ok"]
    /\ UNCHANGED <<payments, wallet_ledger, wallet_balance, stars_price, req, dlv, inv, snd, jobs, hist>>

\* line 207: the backend answered with an error status, raise_for_status raises
BotGotError ==
    /\ bot.pc = "awaiting"
    /\ dlv[BotSlot].pc = "raised"
    /\ bot' = BotFailed(bot)
    /\ UNCHANGED <<payments, wallet_ledger, wallet_balance, stars_price, req, dlv, inv, snd, jobs, hist>>

\* line 201, timeout=10.0: no answer arrived in time, or the answer was lost;
\* the backend may not have started, be under way, or be through
BotTimeout ==
    /\ bot.pc = "awaiting"
    /\ bot' = BotFailed(bot)
    /\ UNCHANGED <<payments, wallet_ledger, wallet_balance, stars_price, req, dlv, inv, snd, jobs, hist>>

BotStep ==
    \/ \E configured \in BOOLEAN : BotStart(configured)
    \/ BotPost
    \/ BotConnectFails
    \/ BotGotOk
    \/ BotGotError
    \/ BotTimeout

\* the message: the successful_payment of payment 1, or one whose amount the
\* backend will refuse
InitBot ==
    \E feature \in {"tarot_premium", "wallet_topup_29"}, total_amount \in {DefaultPrice, DefaultPrice + 1} :
        /\ stars_price = DefaultPrices
        /\ payments = <<InvoicedPayment(1, feature, DefaultPrice)>>
        /\ wallet_ledger = <<>>
        /\ wallet_balance = [u \in Users |-> 0]
        /\ req = [r \in Requests |-> IdleRequest]
        /\ dlv = [w \in 1..max_retries |-> IdleDelivery]
        /\ inv = [c \in Invoicers |-> IdleInvoicer]
        /\ snd = IdleSender
        /\ jobs = <<>>
        /\ hist = [balance0 |-> 0, target |-> 1]
        /\ bot = [IdleBot EXCEPT !.message = Callback(1, 1, total_amount, 1)]

NextBot ==
    \/ BotStep
    \/ \E w \in 1..max_retries :
          MarkPaidLoad(w) \/ MarkPaidCommit(w) \/ CreditCheck(w) \/ CreditApply(w) \/ CreditFails(w)

\* every await of the loop ends: the POST by its answer or its timeout, the
\* sleep by its timer
SpecBot == InitBot /\ [][NextBot]_vars /\ WF_vars(BotStep)
\* C30: the bot's delivery of a successful payment is a bounded retry.  It
\* makes at most 4 attempts, stops at the first that succeeds, has waited 1, 2
\* and 4 seconds after the failed attempts that were followed by another, and
\* always terminates.  After 4 failures it gives up; the bot itself writes
\* nothing, and the payment is then unpaid unless the backend had committed
\* one of the attempts the bot counted as failed (an answer that came too
\* late or was lost, or an error raised after the commit of `paid`).
C30_BoundedRetry ==
    /\ [](/\ bot.attempt < max_retries
          /\ bot.failures <= max_retries
          /\ bot.failures + (IF bot.result = "ok" THEN 1 ELSE 0) <= max_retries
          /\ bot.slept = SubSeq(<<1, 2, 4>>, 1, Len(bot.slept))
          /\ Len(bot.slept) = (IF bot.result = "gave_up" THEN bot.failures - 1 ELSE bot.failures)
          /\ bot.result = "ok" =>
                /\ bot.failures = bot.attempt
                /\ dlv[BotSlot].pc = "done"
                /\ payments[hist.target].status = PAYMENT_STATUS_PAID
                /\ \A w \in DOMAIN dlv : w > BotSlot => dlv[w] = IdleDelivery
          /\ bot.result = "gave_up" =>
                /\ bot.failures = max_retries
                /\ bot.slept = <<1, 2, 4>>
                /\ payments[hist.target].status = PAYMENT_STATUS_PAID =>
                      \E w \in DOMAIN dlv :
                          \/ dlv[w].pc \in {"credit_check", "credit", "done"}
                          \/ dlv[w].error = Err(500, "credit_failed"))
    /\ [][/\ bot' # bot =>
                /\ payments' = payments
                /\ wallet_balance' = wallet_balance
                /\ wallet_ledger' = wallet_ledger
          /\ bot.pc = "returned" =>
                /\ bot' = bot
                /\ \A w \in DOMAIN dlv : dlv[w] = IdleDelivery => dlv'[w] = IdleDelivery]_vars
    /\ <>(bot.pc = "returned")

\* the bot gave up after four failed attempts and three waits of 1, 2 and 4
\* seconds, and the payment is paid by an attempt whose answer never arrived
C30_Witness ==
    /\ bot.result = "gave_up"
    /\ bot.failures = max_retries
    /\ bot.slept = <<1, 2, 4>>
    /\ payments[hist.target].status = PAYMENT_STATUS_PAID
    /\ \A w \in DOMAIN dlv : dlv[w].pc # "raised"

\* C30 as stated, its last clause: when the bot gives up after 4 failures the
\* payment has not been confirmed, it is still unpaid.
C30_GiveUpLeavesUnpaid ==
    [][(bot.result # "gave_up" /\ bot'.result = "gave_up") =>
          payments'[hist.target].status \notin {PAYMENT_STATUS_PAID, PAYMENT_STATUS_CONSUMED}]_vars
====
